---------------------------- MODULE Spec2Model ----------------------------
(***************************************************************************)
(* Gesture-driven mode controller and foliage particle animation of the    *)
(* interactive cherry blossom scene.                                       *)
(*                                                                         *)
(*   GestureController.tsx  predictWebcam / detectGesture: per-frame hand  *)
(*                          classification and debounced mode commits,     *)
(*                          the effect that copies the currentMode prop    *)
(*                          into lastModeRef                               *)
(*   Foliage.tsx            the dual-position generator (useMemo), the     *)
(*                          per-frame progress lerp (useFrame) and the     *)
(*                          vertex shader's chaos/target blend             *)
(*   part_000 (Petals)      the per-frame chaos factor                     *)
(*   Polaroids.tsx          the photo data (useMemo), the per-frame card   *)
(*                          lerp and the closest-photo callback            *)
(*                                                                         *)
(* Real numbers are fixed-point integers with Scale units per 1.0; a       *)
(* product of two fixed-point numbers is rounded to the nearest unit.      *)
(* Distances are compared through their squares, so no square root is      *)
(* needed: a > b*k  <=>  a^2 > b^2*k^2 for non-negative a, b, k.            *)
(***************************************************************************)
EXTENDS Integers, Sequences, FiniteSets, TLC

VARIABLES
    \* ---- GestureController.tsx
    openFrames,      \* openFrames.current
    closedFrames,    \* closedFrames.current
    lastModeRef,     \* lastModeRef.current
    currentMode,     \* the currentMode / mode prop of the last render
    gestureStatus,   \* the gestureStatus state string
    extendedFingers, \* the extended-finger count of the last classified hand
    \* ---- the owner of the mode (the Mode State Machine)
    mode,            \* the owner's Mode value
    \* ---- GestureController.tsx, the initialisation effect
    setup,           \* how far setupMediaPipe / startWebcam have got
    handLandmarker,  \* handLandmarker is not null
    rafPending,      \* a predictWebcam call is scheduled
    \* ---- getUnleashSpreadPositions and pseudoRandom, as called
    spreadCount,     \* the count argument of the last call
    spreadOpts,      \* the opts argument of the last call
    spreadPositions, \* the array the last call returned
    spreadCalled,    \* getUnleashSpreadPositions has been called
    rndCopy,         \* the file whose pseudoRandom was called last
    rndSeed,         \* the seed argument of that call
    rndWord,         \* the 32-bit word that call divided by 2^32
    rndValue,        \* the number that call returned
    firstWord,       \* per seed, the word of the first call with it
    \* ---- Foliage.tsx
    count,           \* the count prop
    chaosPositions,  \* Float32Array(count * 3)
    targetPositions, \* Float32Array(count * 3)
    randoms,         \* Float32Array(count)
    progressRef,     \* progressRef.current
    uProgress,       \* material.uniforms.uProgress.value
    \* ---- history (observation only, never read by the program)
    lastResult,      \* result.landmarks of the last frame with video
    called,          \* the onModeChange calls made by the last step
    tailKind,        \* kind of the most recent gesture sample
    tailRun,         \* how many most recent samples had that kind (capped)
    handKind,        \* kind of the most recent sample with a hand in it
    handRun,         \* how many most recent hand samples had that kind (capped)
    openStreak,      \* OPEN frames fed since a fresh FORMED debouncer, or -1
    streakCalls,     \* the onModeChange calls made during that streak
    altLen,          \* frames of an alternating OPEN/CLOSED stream (capped)
    runCalls,        \* onModeChange calls made during the current held run
    runExternal,     \* an external mode change happened during that run
    externalDue,     \* the owner's un-rendered Mode was set externally
    override,        \* the externally set mode last synced into lastModeRef
    sampled,         \* the kind of the sample the last step took, or "none",
                     \* or "render" if the last step was a render frame
    listAbsent,      \* the last frame's result had no landmarks list at all
    hadRun,          \* a run counter was above 0 when the last sample was taken
    noneRun,         \* how many most recent samples were NONE (capped)
    noneStart,       \* the larger run counter when that run of NONE began
    drawn,           \* the Math.random() draws the generator consumed
    prevCount,       \* the count before the last change of count, or -1
    \* ---- GestureController.tsx, an effect instance whose cleanup has run
    mounted,         \* the component is mounted (videoRef.current is set)
    oldSetup,        \* how far that instance's setup has got, or "none"
    oldHandLandmarker, \* that instance's handLandmarker is not null
    oldClosed,       \* the cleanup called close() on that handLandmarker
    oldRafPending,   \* a predictWebcam call of that instance is scheduled
    oldFed,          \* history: that instance's loop has taken a sample
    oldCalled,       \* history: that instance's loop has called onModeChange
    \* ---- part_000 (Petals) and Polaroids.tsx
    petalChaos,      \* the chaos factor of the last Petals frame, or -1
    uploadedPhotos,  \* the uploadedPhotos prop
    photoData,       \* the photoData array
    cardPosition,    \* groupRef.current.position of each PolaroidItem
    cardEarly,       \* per card: its useFrame runs before that of Polaroids
    twoHandsDetected, \* the twoHandsDetected prop
    cameraPosition,  \* state.camera.position
    closestPhoto,    \* the argument of the last onClosestPhotoChange call
    frames           \* history: how many render frames have run (capped)

gestureVars == <<openFrames, closedFrames, lastModeRef, currentMode,
                 gestureStatus, extendedFingers, mode>>
foliageVars == <<count, chaosPositions, targetPositions, randoms,
                 progressRef, uProgress, drawn, prevCount>>
historyVars == <<lastResult, called, tailKind, tailRun, handKind, handRun, openStreak,
                 streakCalls, altLen, runCalls, runExternal, externalDue,
                 override, sampled, listAbsent, hadRun,
                 noneRun, noneStart>>
setupVars == <<setup, handLandmarker, rafPending>>
layoutVars == <<spreadCount, spreadOpts, spreadPositions, spreadCalled, rndCopy, rndSeed,
                rndWord, rndValue, firstWord>>
lifecycleVars == <<mounted, oldSetup, oldHandLandmarker, oldClosed, oldRafPending,
                   oldFed, oldCalled>>
sceneVars == <<petalChaos, uploadedPhotos, photoData, cardPosition, cardEarly,
               twoHandsDetected, cameraPosition, closestPhoto, frames>>
vars == <<gestureVars, setupVars, foliageVars, historyVars, layoutVars,
          lifecycleVars, sceneVars>>

----------------------------------------------------------------------------
(* Constants of the program and bounds of the model *)

CONFIDENCE_THRESHOLD == 5

\* A run counter is not fed beyond MaxRun frames.
MaxRun == 8
\* altLen stops counting at MaxAlt.
MaxAlt == 4
\* The largest particle count generated.
MaxCount == 3
\* The largest particle count whose blend is followed through the frames.
MaxBlend == 2

\* Fixed-point unit: Scale units are 1.0.
Scale == 1000

Modes == {"CHAOS", "FORMED"}
Kinds == {"OPEN", "CLOSED", "AMBIGUOUS", "NONE"}

Min(a, b) == IF a < b THEN a ELSE b
Max(a, b) == IF a > b THEN a ELSE b
Abs(a) == IF a < 0 THEN -a ELSE a

\* a * b of two fixed-point numbers, rounded to the nearest unit
Mul(a, b) == (a * b + Scale \div 2) \div Scale

----------------------------------------------------------------------------
(* Hand landmarks: the landmark indices detectGesture reads *)

Wrist == 0
ThumbBase == 2
ThumbTip == 4
fingerTips == <<8, 12, 16, 20>>
fingerBases == <<5, 9, 13, 17>>
LandmarkIdx == {0, 2, 4, 5, 8, 9, 12, 13, 16, 17, 20}

\* Math.hypot(a.x - b.x, a.y - b.y), squared
Hypot2(a, b) == (a.x - b.x) * (a.x - b.x) + (a.y - b.y) * (a.y - b.y)

\* distTip > distBase * 1.5
FingerExtended(landmarks, i) ==
    4 * Hypot2(landmarks[fingerTips[i]], landmarks[Wrist])
        > 9 * Hypot2(landmarks[fingerBases[i]], landmarks[Wrist])

\* distThumbTip > distThumbBase * 1.2
ThumbExtended(landmarks) ==
    25 * Hypot2(landmarks[ThumbTip], landmarks[Wrist])
        > 36 * Hypot2(landmarks[ThumbBase], landmarks[Wrist])

\* the extendedFingers count after the loop and the thumb test
ExtendedCount(landmarks) ==
    Cardinality({i \in 1..4 : FingerExtended(landmarks, i)})
        + (IF ThumbExtended(landmarks) THEN 1 ELSE 0)

\* the branch detectGesture takes
ClassifyLoose(n) ==
    IF n >= 3 THEN "OPEN" ELSE IF n <= 1 THEN "CLOSED" ELSE "AMBIGUOUS"
Classify(n) ==
    IF n >= 4 THEN "OPEN" ELSE IF n <= 1 THEN "CLOSED" ELSE "AMBIGUOUS"

\* the status string each branch sets
StatusOf(kind) ==
    CASE kind = "OPEN" -> "Detected: OPEN (Unleash)"
      [] kind = "CLOSED" -> "Detected: CLOSED (Restore)"
      [] kind = "AMBIGUOUS" -> "Detected: ..."
      [] OTHER -> "No hand detected"

\* the mode a held gesture commits
ModeOf(kind) == IF kind = "OPEN" THEN "CHAOS" ELSE "FORMED"

----------------------------------------------------------------------------
(* The debounce counters *)

\* <<openFrames, closedFrames>> after a sample of the given kind
CountersKeepOpposite(kind, o, c) ==
    CASE kind = "OPEN" -> <<o + 1, c>>
      [] kind = "CLOSED" -> <<o, c + 1>>
      [] kind = "AMBIGUOUS" -> <<0, 0>>
      [] OTHER -> <<Max(0, o - 1), Max(0, c - 1)>>
CountersResetOnNone(kind, o, c) ==
    CASE kind = "OPEN" -> <<o + 1, 0>>
      [] kind = "CLOSED" -> <<0, c + 1>>
      [] OTHER -> <<0, 0>>
CountersFloorless(kind, o, c) ==
    CASE kind = "OPEN" -> <<o + 1, 0>>
      [] kind = "CLOSED" -> <<0, c + 1>>
      [] kind = "AMBIGUOUS" -> <<0, 0>>
      [] OTHER -> <<o - 1, c - 1>>
CountersDecayOnAmbiguous(kind, o, c) ==
    CASE kind = "OPEN" -> <<o + 1, 0>>
      [] kind = "CLOSED" -> <<0, c + 1>>
      [] OTHER -> <<Max(0, o - 1), Max(0, c - 1)>>
CountersReplayed(kind, o, c) ==
    CASE kind = "OPEN" -> <<o + 2, 0>>
      [] kind = "CLOSED" -> <<0, c + 2>>
      [] kind = "AMBIGUOUS" -> <<0, 0>>
      [] OTHER -> <<Max(0, o - 2), Max(0, c - 2)>>
CountersAfter(kind, o, c) ==
    CASE kind = "OPEN" -> <<o + 1, 0>>
      [] kind = "CLOSED" -> <<0, c + 1>>
      [] kind = "AMBIGUOUS" -> <<0, 0>>
      [] OTHER -> <<Max(0, o - 1), Max(0, c - 1)>>

\* run > CONFIDENCE_THRESHOLD and lastModeRef.current !== m
ShouldCommitEarly(run, last, m) == run >= CONFIDENCE_THRESHOLD /\ last # m
ShouldCommitAlways(run, last, m) == run > CONFIDENCE_THRESHOLD
ShouldCommit(run, last, m) == run > CONFIDENCE_THRESHOLD /\ last # m


----------------------------------------------------------------------------
(* The owner of the mode *)

\* setMode(newMode): unconditional overwrite, the latest call wins
setMode(old, newMode) == newMode

----------------------------------------------------------------------------
(* History bookkeeping for one gesture sample *)

Observe(kind, calls) ==
    LET fresh == openFrames = 0 /\ closedFrames = 0
        freshFormed == /\ fresh
                       /\ lastModeRef = "FORMED"
                       /\ currentMode = "FORMED"
                       /\ mode = "FORMED"
        base == IF freshFormed THEN 0 ELSE openStreak
        baseCalls == IF freshFormed THEN <<>> ELSE streakCalls
        streak == kind = "OPEN" /\ base # -1
        sameRun == kind = tailKind
        alternates == /\ altLen > 0
                      /\ tailKind \in {"OPEN", "CLOSED"}
                      /\ tailKind # kind
    IN  /\ called' = calls
        /\ sampled' = kind
        /\ hadRun' = (openFrames > 0 \/ closedFrames > 0)
        /\ noneRun' = IF kind = "NONE" THEN Min(noneRun + 1, MaxRun + 1) ELSE 0
        /\ noneStart' = IF kind # "NONE" THEN 0
                        ELSE IF noneRun = 0 THEN Max(openFrames, closedFrames)
                        ELSE noneStart
        /\ tailKind' = kind
        /\ tailRun' = IF sameRun
                        THEN Min(tailRun + 1, CONFIDENCE_THRESHOLD + 1)
                        ELSE 1
        /\ handKind' = IF kind = "NONE" THEN handKind ELSE kind
        /\ handRun' = IF kind = "NONE" THEN handRun
                      ELSE IF kind = handKind
                        THEN Min(handRun + 1, CONFIDENCE_THRESHOLD + 1)
                        ELSE 1
        /\ openStreak' = IF streak THEN base + 1 ELSE -1
        /\ streakCalls' = IF streak THEN baseCalls \o calls ELSE <<>>
        /\ altLen' = IF kind \notin {"OPEN", "CLOSED"} THEN 0
                     ELSE IF alternates THEN Min(altLen + 1, MaxAlt)
                     ELSE IF fresh THEN 1
                     ELSE 0
        /\ runCalls' = (IF sameRun THEN runCalls ELSE 0) + Len(calls)
        /\ runExternal' = (sameRun /\ runExternal)
        /\ externalDue' = (externalDue /\ calls = <<>>)
        /\ override' = IF kind \in {"OPEN", "CLOSED"} THEN "none" ELSE override

----------------------------------------------------------------------------
(* GestureController: one prediction frame *)

\* detectGesture(landmarks), from the finger count on
DetectGesture(landmarks) ==
    /\ extendedFingers' = ExtendedCount(landmarks)
    /\ LET kind == Classify(extendedFingers')
           ctr == CountersAfter(kind, openFrames, closedFrames)
           run == IF kind = "OPEN" THEN ctr[1] ELSE ctr[2]
           m == ModeOf(kind)
           commit == /\ kind \in {"OPEN", "CLOSED"}
                     /\ ShouldCommit(run, lastModeRef, m)
       IN  /\ ctr[1] <= MaxRun
           /\ ctr[2] <= MaxRun
           /\ openFrames' = ctr[1]
           /\ closedFrames' = ctr[2]
           /\ gestureStatus' = StatusOf(kind)
           /\ lastModeRef' = IF commit THEN m ELSE lastModeRef
           /\ mode' = IF commit THEN setMode(mode, m) ELSE mode
           /\ UNCHANGED currentMode
           /\ Observe(kind, IF commit THEN <<m>> ELSE <<>>)

\* the else branch of predictWebcam: no landmarks in the result
NoHand ==
    LET ctr == CountersAfter("NONE", openFrames, closedFrames)
    IN  /\ openFrames' = ctr[1]
        /\ closedFrames' = ctr[2]
        /\ gestureStatus' = StatusOf("NONE")
        /\ UNCHANGED <<extendedFingers, lastModeRef, mode, currentMode>>
        /\ Observe("NONE", <<>>)

\* predictWebcam from the videoWidth test up to the requestAnimationFrame
\* call, with the detector's result; videoWidth > 0 is videoReady.
\* The result is a record; a result without a landmarks list has no
\* landmarks field.
PredictWebcamBody(videoReady, result) ==
    /\ IF ~videoReady
         THEN /\ called' = <<>>
              /\ sampled' = "none"
              /\ hadRun' = FALSE
              /\ UNCHANGED <<gestureVars, lastResult, tailKind, tailRun, handKind, handRun,
                             openStreak, streakCalls, altLen, runCalls,
                             runExternal, externalDue, override, listAbsent,
                             noneRun, noneStart>>
         ELSE IF "landmarks" \in DOMAIN result /\ Len(result.landmarks) > 0
           THEN /\ lastResult' = result.landmarks
                /\ listAbsent' = FALSE
                /\ DetectGesture(result.landmarks[1])
           ELSE /\ lastResult' = <<>>
                /\ listAbsent' = ("landmarks" \notin DOMAIN result)
                /\ NoHand

\* predictWebcam of the current effect instance: it returns at once without a
\* handLandmarker, and ends with requestAnimationFrame(predictWebcam)
PredictWebcam(videoReady, result) ==
    /\ rafPending
    /\ handLandmarker
    /\ PredictWebcamBody(videoReady, result)
    /\ rafPending' = TRUE
    /\ UNCHANGED <<setup, handLandmarker>>
    /\ UNCHANGED <<foliageVars, layoutVars, lifecycleVars, sceneVars>>

\* useEffect(() => { lastModeRef.current = currentMode }, [currentMode]):
\* a render that hands the component a changed currentMode, and its effect
Rerender ==
    /\ mode # currentMode
    /\ currentMode' = mode
    /\ lastModeRef' = mode
    /\ called' = <<>>
    /\ override' = IF externalDue THEN mode ELSE "none"
    /\ externalDue' = FALSE
    /\ sampled' = "none"
    /\ hadRun' = FALSE
    /\ UNCHANGED <<openFrames, closedFrames, gestureStatus, extendedFingers,
                   mode, lastResult, tailKind, tailRun, handKind, handRun, openStreak,
                   streakCalls, altLen, runCalls, runExternal, listAbsent,
                   noneRun, noneStart>>
    /\ UNCHANGED <<setupVars, foliageVars, layoutVars, lifecycleVars, sceneVars>>

\* a mode change not made by the gesture pipeline (a manual UI control)
ExternalSetMode(m) ==
    /\ m # mode
    /\ mode' = setMode(mode, m)
    /\ called' = <<>>
    /\ externalDue' = TRUE
    /\ runExternal' = TRUE
    /\ openStreak' = -1
    /\ streakCalls' = <<>>
    /\ sampled' = "none"
    /\ hadRun' = FALSE
    /\ UNCHANGED <<openFrames, closedFrames, lastModeRef, currentMode,
                   gestureStatus, extendedFingers, lastResult, tailKind,
                   tailRun, handKind, handRun, altLen, runCalls, override,
                   listAbsent, noneRun, noneStart>>
    /\ UNCHANGED <<setupVars, foliageVars, layoutVars, lifecycleVars, sceneVars>>

----------------------------------------------------------------------------
(* GestureController: the initialisation effect *)

\* what a step of the initialisation leaves alone
SetupFrame ==
    /\ called' = <<>>
    /\ sampled' = "none"
    /\ hadRun' = FALSE
    /\ UNCHANGED <<openFrames, closedFrames, lastModeRef, currentMode,
                   extendedFingers, mode>>
    /\ UNCHANGED <<lastResult, tailKind, tailRun, handKind, handRun,
                   openStreak, streakCalls, altLen, runCalls, runExternal,
                   externalDue, override, listAbsent, noneRun, noneStart>>
    /\ UNCHANGED <<foliageVars, layoutVars, lifecycleVars, sceneVars>>

\* catch (error) of setupMediaPipe
CatchSetupError ==
    /\ gestureStatus' = "Gesture control unavailable"
    /\ setup' = "unavailable"
    /\ UNCHANGED <<handLandmarker, rafPending>>

\* catch (err) of startWebcam
CatchWebcamErrorAndListen ==
    /\ gestureStatus' = "Permission Denied"
    /\ setup' = "denied"
    /\ rafPending' = TRUE
    /\ UNCHANGED handLandmarker
CatchWebcamError ==
    /\ gestureStatus' = "Permission Denied"
    /\ setup' = "denied"
    /\ UNCHANGED <<handLandmarker, rafPending>>

\* await FilesetResolver.forVisionTasks(...) settles
ResolveFileset(ok) ==
    /\ setup = "resolving"
    /\ IF ok
         THEN /\ setup' = "creating"
              /\ UNCHANGED <<gestureStatus, handLandmarker, rafPending>>
         ELSE CatchSetupError
    /\ SetupFrame

\* await HandLandmarker.createFromOptions(...) settles; on success
\* startWebcam() runs up to its await, if the browser has getUserMedia
CreateHandLandmarker(ok, hasMediaDevices) ==
    /\ setup = "creating"
    /\ IF ok
         THEN /\ handLandmarker' = TRUE
              /\ setup' = IF hasMediaDevices THEN "webcam" ELSE "no camera"
              /\ UNCHANGED <<gestureStatus, rafPending>>
         ELSE CatchSetupError
    /\ SetupFrame

\* await navigator.mediaDevices.getUserMedia(...) settles
GetUserMedia(ok) ==
    /\ setup = "webcam"
    /\ IF ok
         THEN /\ gestureStatus' = "Waiting for hand..."
              /\ setup' = "attached"
              /\ UNCHANGED <<handLandmarker, rafPending>>
         ELSE CatchWebcamError
    /\ SetupFrame

\* the video's loadeddata event: the listener is predictWebcam
LoadedData ==
    /\ setup = "attached"
    /\ setup' = "running"
    /\ rafPending' = TRUE
    /\ UNCHANGED <<gestureStatus, handLandmarker>>
    /\ SetupFrame

----------------------------------------------------------------------------
(* Frame inputs *)

\* A hand with the wrist at the origin, the four finger bases at distance 2
\* and the thumb base at distance 5; level 1, 2, 3 puts a finger tip at
\* 1.0, 1.5, 2.0 times the base distance and the thumb tip at 1.0, 1.2, 1.4.
BaseDir == <<[x |-> 2, y |-> 0], [x |-> 0, y |-> 2],
             [x |-> -2, y |-> 0], [x |-> 0, y |-> -2]>>
TipLevels == 1..3
Hand(level) ==
    [k \in LandmarkIdx |->
        IF k = Wrist THEN [x |-> 0, y |-> 0]
        ELSE IF k = ThumbBase THEN [x |-> 5, y |-> 0]
        ELSE IF k = ThumbTip THEN [x |-> 4 + level[5], y |-> 0]
        ELSE LET i == CHOOSE j \in 1..4 : k \in {fingerTips[j], fingerBases[j]}
             IN  IF k = fingerBases[i] THEN BaseDir[i]
                 ELSE [x |-> (BaseDir[i].x * (level[i] + 1)) \div 2,
                       y |-> (BaseDir[i].y * (level[i] + 1)) \div 2]]

AllHands == {Hand(level) : level \in [1..5 -> TipLevels]}
\* one hand per finger count: the first k tips beyond the threshold ratio,
\* the other tips exactly at it
FrameHands == {Hand([i \in 1..5 |-> IF i <= k THEN 3 ELSE 2]) : k \in 0..5}

Results(hands) == {<<>>} \cup {<<h>> : h \in hands}

\* a detector result without a landmarks list
NoLandmarks == [handednesses |-> <<>>]

----------------------------------------------------------------------------
(* pseudoRandom: Mulberry32 on 32-bit words *)

\* A 32-bit word is the pair <<high half, low half>> of 16-bit numbers, so
\* that no intermediate value leaves the 32-bit integers.
Half == 2 ^ 16
Byte == 2 ^ 8

\* ToUint32 of an integer
ToUint32(n) == <<(n \div Half) % Half, n % Half>>

\* a + b, modulo 2^32
AddW(a, b) ==
    LET lo == a[2] + b[2]
    IN  <<(a[1] + b[1] + (lo \div Half)) % Half, lo % Half>>

\* a ^ b and a | b on 16-bit numbers
RECURSIVE Xor(_, _)
Xor(a, b) ==
    IF a = 0 THEN b
    ELSE IF b = 0 THEN a
    ELSE 2 * Xor(a \div 2, b \div 2) + ((a + b) % 2)
RECURSIVE Or(_, _)
Or(a, b) ==
    IF a = 0 THEN b
    ELSE IF b = 0 THEN a
    ELSE 2 * Or(a \div 2, b \div 2) + (IF a % 2 = 1 \/ b % 2 = 1 THEN 1 ELSE 0)

\* a ^ b on words, and a | k for a constant k below 2^16
XorW(a, b) == <<Xor(a[1], b[1]), Xor(a[2], b[2])>>
OrW(a, k) == <<a[1], Or(a[2], k)>>

\* a >>> k for 0 < k < 16
ShrW(a, k) ==
    <<a[1] \div (2 ^ k), (a[2] \div (2 ^ k)) + (a[1] % (2 ^ k)) * (2 ^ (16 - k))>>

\* Math.imul(a, b): the low 32 bits of the product
Imul(a, b) ==
    LET MulMod(x, y) == (((x * (y \div Byte)) % Byte) * Byte + x * (y % Byte)) % Half
        p1 == a[2] * (b[2] \div Byte)
        p0 == a[2] * (b[2] % Byte)
        low == AddW(<<p1 \div Byte, (p1 % Byte) * Byte>>, ToUint32(p0))
        cross == (MulMod(a[1], b[2]) + MulMod(a[2], b[1])) % Half
    IN  <<(low[1] + cross) % Half, low[2]>>

\* 0x6D2B79F5
Increment == <<27947, 31221>>

\* w / 4294967296 as a fixed-point number, rounded down
Div2To32(w) == (w[1] * Scale + ((w[2] * Scale) \div Half)) \div Half

\* GestureController.tsx pseudoRandom: (t ^ t >>> 14) >>> 0.  Each
\* assignment to t is a one-element set, innermost first, so that every value
\* of t is computed once.
pseudoRandomWord(seed) ==
    CHOOSE w \in
        { XorW(t2, ShrW(t2, 14)) : t2 \in
            { XorW(t1, AddW(t1, Imul(XorW(t1, ShrW(t1, 7)), OrW(t1, 61)))) : t1 \in
                { Imul(XorW(t0, ShrW(t0, 15)), OrW(t0, 1)) : t0 \in
                    { AddW(ToUint32(seed), Increment) } } } } : TRUE
pseudoRandom(seed) == Div2To32(pseudoRandomWord(seed))

\* Polaroids.tsx pseudoRandom
Polaroids_pseudoRandomNoOr(seed) ==
    CHOOSE w \in
        { XorW(t2, ShrW(t2, 14)) : t2 \in
            { XorW(t1, AddW(t1, Imul(XorW(t1, ShrW(t1, 7)), OrW(t1, 61)))) : t1 \in
                { Imul(XorW(t0, ShrW(t0, 15)), t0) : t0 \in
                    { AddW(ToUint32(seed), Increment) } } } } : TRUE
Polaroids_pseudoRandomWord(seed) ==
    CHOOSE w \in
        { XorW(t2, ShrW(t2, 14)) : t2 \in
            { XorW(t1, AddW(t1, Imul(XorW(t1, ShrW(t1, 7)), OrW(t1, 61)))) : t1 \in
                { Imul(XorW(t0, ShrW(t0, 15)), OrW(t0, 1)) : t0 \in
                    { AddW(ToUint32(seed), Increment) } } } } : TRUE
Polaroids_pseudoRandom(seed) == Div2To32(Polaroids_pseudoRandomWord(seed))

\* the seeds the two functions are called with
RandomSeeds == {-1, 0, 1, 2, 77, 113, 1000003}

----------------------------------------------------------------------------
(* Initial state *)

InitGesture ==
    /\ openFrames = 0
    /\ closedFrames = 0
    /\ currentMode \in Modes
    /\ lastModeRef = currentMode
    /\ mode = currentMode
    /\ gestureStatus = "Initializing..."
    /\ extendedFingers = 0
    /\ setup = "resolving"
    /\ handLandmarker = FALSE
    /\ rafPending = FALSE

InitHistory ==
    /\ lastResult = <<>>
    /\ called = <<>>
    /\ tailKind = "NONE"
    /\ tailRun = 0
    /\ handKind = "NONE"
    /\ handRun = 0
    /\ openStreak = -1
    /\ streakCalls = <<>>
    /\ altLen = 0
    /\ runCalls = 0
    /\ runExternal = FALSE
    /\ externalDue = FALSE
    /\ override = "none"
    /\ sampled = "none"
    /\ listAbsent = FALSE
    /\ noneRun = 0
    /\ noneStart = 0
    /\ hadRun = FALSE

InitNoFoliage ==
    /\ count = 0
    /\ chaosPositions = <<>>
    /\ targetPositions = <<>>
    /\ randoms = <<>>
    /\ drawn = <<>>
    /\ prevCount = -1
    /\ progressRef = 0
    /\ uProgress = 0

\* neither getUnleashSpreadPositions nor pseudoRandom has been called
InitNoLayout ==
    /\ spreadCount = 0
    /\ spreadOpts = [easing |-> Scale]
    /\ spreadPositions = <<>>
    /\ spreadCalled = FALSE
    /\ rndCopy = "none"
    /\ rndSeed = 0
    /\ rndWord = <<0, 0>>
    /\ rndValue = 0
    /\ firstWord = [seed \in RandomSeeds |-> <<>>]

\* no effect cleanup has run
InitNoCleanup ==
    /\ mounted = TRUE
    /\ oldSetup = "none"
    /\ oldHandLandmarker = FALSE
    /\ oldClosed = FALSE
    /\ oldRafPending = FALSE
    /\ oldFed = FALSE
    /\ oldCalled = FALSE

\* no photo uploaded, no render frame yet
InitNoScene ==
    /\ petalChaos = -1
    /\ uploadedPhotos = <<>>
    /\ photoData = <<>>
    /\ cardPosition = <<>>
    /\ cardEarly = <<>>
    /\ twoHandsDetected = FALSE
    /\ cameraPosition = <<0, 0, 0>>
    /\ closestPhoto = "none"
    /\ frames = 0

Init ==
    InitGesture /\ InitHistory /\ InitNoFoliage /\ InitNoLayout /\ InitNoCleanup
    /\ InitNoScene

Setup ==
    \/ \E ok \in BOOLEAN : ResolveFileset(ok)
    \/ \E ok \in BOOLEAN : \E hasMediaDevices \in BOOLEAN :
          CreateHandLandmarker(ok, hasMediaDevices)
    \/ \E ok \in BOOLEAN : GetUserMedia(ok)
    \/ LoadedData
Frame ==
    \/ PredictWebcam(FALSE, NoLandmarks)
    \/ PredictWebcam(TRUE, NoLandmarks)
    \/ \E r \in Results(FrameHands) : PredictWebcam(TRUE, [landmarks |-> r])
External == \E m \in Modes : ExternalSetMode(m)

Next == Setup \/ Frame \/ External \/ Rerender

Spec == Init /\ [][Next]_vars

\* The classifier on every hand of AllHands: the camera shows one hand, or
\* none, and every frame hands it to detectGesture.
InitShown ==
    /\ lastResult \in Results(AllHands)
    /\ called = <<>>
    /\ tailKind = "NONE"
    /\ tailRun = 0
    /\ handKind = "NONE"
    /\ handRun = 0
    /\ openStreak = -1
    /\ streakCalls = <<>>
    /\ altLen = 0
    /\ runCalls = 0
    /\ runExternal = FALSE
    /\ externalDue = FALSE
    /\ override = "none"
    /\ sampled = "none"
    /\ listAbsent = FALSE
    /\ noneRun = 0
    /\ noneStart = 0
    /\ hadRun = FALSE

InitClassifier ==
    InitGesture /\ InitShown /\ InitNoFoliage /\ InitNoLayout /\ InitNoCleanup
    /\ InitNoScene

SameHandFrame == PredictWebcam(TRUE, [landmarks |-> lastResult])

NextClassifier == Setup \/ SameHandFrame \/ Rerender

SpecClassifier == InitClassifier /\ [][NextClassifier]_vars

----------------------------------------------------------------------------
(* The initialisation effect's cleanup, and what the cleaned-up effect
   instance goes on to do.  The effect has the dependency onModeChange: a
   changed onModeChange runs the cleanup and then the effect again, an
   unmount runs the cleanup only.  One cleanup per behaviour is modelled. *)

\* a step of the lifecycle that takes no gesture sample
LifecycleFrame ==
    /\ called' = <<>>
    /\ sampled' = "none"
    /\ hadRun' = FALSE
    /\ UNCHANGED <<openFrames, closedFrames, lastModeRef, currentMode,
                   extendedFingers, mode>>
    /\ UNCHANGED <<lastResult, tailKind, tailRun, handKind, handRun,
                   openStreak, streakCalls, altLen, runCalls, runExternal,
                   externalDue, override, listAbsent, noneRun, noneStart>>
    /\ UNCHANGED <<foliageVars, layoutVars, sceneVars>>

\* the effect's return function, cancelAnimationFrame(animationFrameId) and
\* handLandmarker.close() if there is one, followed on a changed
\* onModeChange (remount) by the effect body: fresh handLandmarker = null,
\* setupMediaPipe() up to its first await.  The loadeddata listener stays
\* on the video element and a setup that is awaiting goes on.
Cleanup(remount) ==
    /\ mounted
    /\ oldSetup = "none"
    /\ oldSetup' = setup
    /\ oldHandLandmarker' = handLandmarker
    /\ oldClosed' = handLandmarker
    /\ oldRafPending' = FALSE
    /\ mounted' = remount
    /\ setup' = IF remount THEN "resolving" ELSE "unmounted"
    /\ handLandmarker' = FALSE
    /\ rafPending' = FALSE
    /\ UNCHANGED <<gestureStatus, oldFed, oldCalled>>
    /\ LifecycleFrame

\* a setup step of the cleaned-up instance; setGestureStatus of an unmounted
\* component does nothing
OldSetupFrame ==
    /\ UNCHANGED <<mounted, oldClosed, oldFed, oldCalled, setupVars>>
    /\ LifecycleFrame
OldStatus(status) ==
    gestureStatus' = IF mounted THEN status ELSE gestureStatus

\* its await FilesetResolver.forVisionTasks(...) settles
OldResolveFileset(ok) ==
    /\ oldSetup = "resolving"
    /\ IF ok
         THEN /\ oldSetup' = "creating"
              /\ UNCHANGED gestureStatus
         ELSE /\ oldSetup' = "unavailable"
              /\ OldStatus("Gesture control unavailable")
    /\ UNCHANGED <<oldHandLandmarker, oldRafPending>>
    /\ OldSetupFrame

\* its await HandLandmarker.createFromOptions(...) settles: the closure's
\* handLandmarker is assigned after the cleanup ran, nothing closes it
OldCreateHandLandmarker(ok, hasMediaDevices) ==
    /\ oldSetup = "creating"
    /\ IF ok
         THEN /\ oldHandLandmarker' = TRUE
              /\ oldSetup' = IF hasMediaDevices THEN "webcam" ELSE "no camera"
              /\ UNCHANGED gestureStatus
         ELSE /\ oldSetup' = "unavailable"
              /\ OldStatus("Gesture control unavailable")
              /\ UNCHANGED oldHandLandmarker
    /\ UNCHANGED oldRafPending
    /\ OldSetupFrame

\* its await getUserMedia(...) settles: if (videoRef.current) the listener
\* predictWebcam is added to the video element
OldGetUserMedia(ok) ==
    /\ oldSetup = "webcam"
    /\ IF ok
         THEN /\ oldSetup' = IF mounted THEN "attached" ELSE "detached"
              /\ OldStatus("Waiting for hand...")
         ELSE /\ oldSetup' = "denied"
              /\ OldStatus("Permission Denied")
    /\ UNCHANGED <<oldHandLandmarker, oldRafPending>>
    /\ OldSetupFrame

\* loadeddata reaches the cleaned-up instance's listener: for the stream it
\* attached itself, or, the listener never being removed, for the stream
\* the new instance has attached to the same video element
OldLoadedData ==
    /\ mounted
    /\ oldHandLandmarker
    /\ ~oldRafPending
    /\ \/ oldSetup = "attached"
       \/ oldSetup = "running" /\ setup = "attached"
    /\ oldSetup' = "running"
    /\ oldRafPending' = TRUE
    /\ UNCHANGED <<gestureStatus, oldHandLandmarker>>
    /\ OldSetupFrame

\* detectForVideo on a handLandmarker after close() throws: the callback
\* ends before requestAnimationFrame
OldPredictThrows ==
    /\ mounted
    /\ oldRafPending
    /\ oldHandLandmarker
    /\ oldClosed
    /\ oldRafPending' = FALSE
    /\ UNCHANGED <<gestureStatus, oldSetup, oldHandLandmarker>>
    /\ OldSetupFrame

\* predictWebcam of the cleaned-up instance, on the refs it shares with the
\* current one; after close() detectForVideo either throws or still answers
OldPredictWebcam(videoReady, result) ==
    /\ mounted
    /\ oldRafPending
    /\ oldHandLandmarker
    /\ PredictWebcamBody(videoReady, result)
    /\ oldRafPending' = TRUE
    /\ oldFed' = (oldFed \/ sampled' # "none")
    /\ oldCalled' = (oldCalled \/ called' # <<>>)
    /\ UNCHANGED <<mounted, oldSetup, oldHandLandmarker, oldClosed, setupVars>>
    /\ UNCHANGED <<foliageVars, layoutVars, sceneVars>>

\* the hands shown to the camera: every finger extended, no finger extended
PoseHands == {Hand([i \in 1..5 |-> 3]), Hand([i \in 1..5 |-> 2])}

PoseFrame ==
    \/ PredictWebcam(FALSE, NoLandmarks)
    \/ \E r \in Results(PoseHands) : PredictWebcam(TRUE, [landmarks |-> r])
EffectCleanup == \E remount \in BOOLEAN : Cleanup(remount)
OldSetup ==
    \/ \E ok \in BOOLEAN : OldResolveFileset(ok)
    \/ \E ok \in BOOLEAN : \E hasMediaDevices \in BOOLEAN :
          OldCreateHandLandmarker(ok, hasMediaDevices)
    \/ \E ok \in BOOLEAN : OldGetUserMedia(ok)
    \/ OldLoadedData
OldFrame ==
    \/ OldPredictThrows
    \/ OldPredictWebcam(FALSE, NoLandmarks)
    \/ \E r \in Results(PoseHands) : OldPredictWebcam(TRUE, [landmarks |-> r])

NextLifecycle ==
    Setup \/ PoseFrame \/ Rerender \/ EffectCleanup \/ OldSetup \/ OldFrame

SpecLifecycle == Init /\ [][NextLifecycle]_vars

----------------------------------------------------------------------------
(* Foliage: the dual-position generator *)

\* Math.random() results the generator is fed with.  Each particle consumes
\* seven draws <<r, theta, phi, verticalBias, verticalVariation, jitter, rnd>>;
\* the theta draw is a quarter turn and the phi draw is 0 or 1/2, where the
\* sine and cosine are exact.
Almost1 == Scale - 1
DrawChoices ==
    { <<0, 0, 0, 0, 0, 0, 0>>,
      <<(3 * Scale) \div 4, Scale \div 4, Scale \div 2, 0, (3 * Scale) \div 4,
        Scale \div 4, (3 * Scale) \div 4>>,
      <<(3 * Scale) \div 4, Scale \div 2, 0, (3 * Scale) \div 4, 0,
        (3 * Scale) \div 4, Scale \div 4>>,
      <<Almost1, (3 * Scale) \div 4, Scale \div 2, Almost1, Almost1,
        Almost1, Almost1>> }

\* Math.cos(u * 2 * Math.PI) and Math.sin(u * 2 * Math.PI) at quarter turns
CosTurn(u) ==
    CASE u = 0 -> Scale
      [] u = Scale \div 4 -> 0
      [] u = Scale \div 2 -> -Scale
      [] u = (3 * Scale) \div 4 -> 0
SinTurn(u) ==
    CASE u = 0 -> 0
      [] u = Scale \div 4 -> Scale
      [] u = Scale \div 2 -> 0
      [] u = (3 * Scale) \div 4 -> -Scale

\* phi = Math.acos(2 * u - 1): Math.cos(phi) and Math.sin(phi) for u = 0, 1/2
CosPhi(u) == 2 * u - Scale
SinPhi(u) ==
    CASE u = 0 -> 0
      [] u = Scale \div 2 -> Scale

\* Math.pow(u, 0.45) at the ranks u = (i + 0.5) / count of counts 1 to 4
Pow045(u) ==
    CASE u = 125 -> 392
      [] u = 167 -> 447
      [] u = 250 -> 536
      [] u = 375 -> 643
      [] u = 500 -> 732
      [] u = 625 -> 809
      [] u = 750 -> 879
      [] u = 833 -> 921
      [] u = 875 -> 942

\* <<Math.cos(thetaSpiral), Math.sin(thetaSpiral)>> of particle i of n, where
\* thetaSpiral = 2 * PI * goldenRatio * i + arms * (diskR * 0.45)
SpiralTrig(i, n) ==
    CASE n = 1 -> <<-634, 773>>
      [] n = 2 /\ i = 0 -> <<-143, -990>>
      [] n = 2 /\ i = 1 -> <<-950, 312>>
      [] n = 3 /\ i = 0 -> <<-928, 374>>
      [] n = 3 /\ i = 1 -> <<990, -142>>
      [] n = 3 /\ i = 2 -> <<278, 960>>
      [] n = 4 /\ i = 0 -> <<-90, 996>>
      [] n = 4 /\ i = 1 -> <<-363, -932>>
      [] n = 4 /\ i = 2 -> <<560, -829>>
      [] n = 4 /\ i = 3 -> <<767, -642>>

\* new Float32Array(n): n zeros
Float32Array(n) == [k \in 1..n |-> 0]

\* the chaos position of a particle, from its draws
ChaosOf(d) ==
    LET r == 55 * d[1]
        horiz == Mul(r, SinPhi(d[3]))
        verticalBias == 20 * (d[4] - Scale \div 2)
    IN  << Mul(Mul(horiz, CosTurn(d[2])), (18 * Scale) \div 10),
           Mul(horiz, SinTurn(d[2])) + 8 * Scale + verticalBias,
           Mul(Mul(r, CosPhi(d[3])), (13 * Scale) \div 10) >>

\* r01 = Math.pow(u, 0.45) with u = (i + 0.5) / count
R01Descending(i, n) == Pow045(((2 * (n - 1 - i) + 1) * Scale + n) \div (2 * n))
R01(i, n) == Pow045(((2 * i + 1) * Scale + n) \div (2 * n))

\* the target position of particle i of n, from its draws
TargetOf(i, n, d) ==
    LET r01 == R01(i, n)
        diskR == 15 * r01
        bulge == Mul(Scale - r01, Scale - r01)
        baseY == (12 * 95 * Scale) \div 100 + Scale
        thicknessCenter == 2 * Scale
        thicknessEdge == (4 * Scale) \div 10
        edgeDrop == - Mul((35 * Scale) \div 100, Mul(r01, r01))
        localThickness == thicknessEdge + Mul(thicknessCenter - thicknessEdge, bulge)
        verticalVariation ==
            Mul(Mul(d[5] - Scale \div 2, localThickness), (12 * Scale) \div 10)
        jitter == Mul(d[6] - Scale \div 2, (2 * Scale) \div 10)
        rr == Mul(diskR, Scale + jitter)
    IN  << Mul(SpiralTrig(i, n)[1], rr),
           baseY + edgeDrop + verticalVariation,
           Mul(SpiralTrig(i, n)[2], rr) >>

\* the three writes of loop iteration i into an array of triples
SetTriple(arr, i, v) ==
    [arr EXCEPT ![i * 3 + 1] = v[1], ![i * 3 + 2] = v[2], ![i * 3 + 3] = v[3]]

\* the loop for (let i = 0; i < count; i++) from iteration i on
RECURSIVE GenerateFrom(_, _, _, _)
GenerateFrom(i, n, draws, acc) ==
    IF i >= n THEN acc
    ELSE GenerateFrom(i + 1, n, draws,
            [chaos |-> SetTriple(acc.chaos, i, ChaosOf(draws[i + 1])),
             target |-> SetTriple(acc.target, i, TargetOf(i, n, draws[i + 1])),
             rnd |-> [acc.rnd EXCEPT ![i + 1] = draws[i + 1][7]]])

\* the useMemo body: allocate the three arrays, then fill them
GenerateRndAsTriples(n, draws) ==
    GenerateFrom(0, n, draws,
        [chaos |-> Float32Array(n * 3),
         target |-> Float32Array(n * 3),
         rnd |-> Float32Array(n * 3)])
Generate(n, draws) ==
    GenerateFrom(0, n, draws,
        [chaos |-> Float32Array(n * 3),
         target |-> Float32Array(n * 3),
         rnd |-> Float32Array(n)])

\* a render with the given count prop: useMemo runs the generator
Mount(n, draws) ==
    \E made \in {Generate(n, draws)} :
        /\ count' = n
        /\ drawn' = draws
        /\ chaosPositions' = made.chaos
        /\ targetPositions' = made.target
        /\ randoms' = made.rnd

\* a re-render with a changed count prop
SetCount(n, draws) ==
    /\ n # count
    /\ Mount(n, draws)
    /\ prevCount' = count
    /\ UNCHANGED <<progressRef, uProgress>>
    /\ UNCHANGED <<gestureVars, setupVars, historyVars, layoutVars, lifecycleVars, sceneVars>>

----------------------------------------------------------------------------
(* Foliage: the per-frame progress update *)

\* THREE.MathUtils.lerp(x, y, t) = (1 - t) * x + t * y
lerp(x, y, t) == Mul(Scale - t, x) + Mul(t, y)

\* the useFrame callback with the frame's delta time
FoliageUseFrame(delta) ==
    LET target == IF currentMode = "FORMED" THEN Scale ELSE 0
    IN  /\ progressRef' = lerp(progressRef, target, Mul(delta, (15 * Scale) \div 10))
        /\ uProgress' = progressRef'
        /\ UNCHANGED <<count, chaosPositions, targetPositions, randoms, drawn,
                       prevCount>>

\* a render frame of the foliage alone
FoliageFrame(delta) ==
    /\ FoliageUseFrame(delta)
    /\ UNCHANGED <<gestureVars, setupVars, historyVars, layoutVars, lifecycleVars,
                   sceneVars>>

\* frame delta times, in seconds
DeltaChoices == {0, Scale \div 10, (4 * Scale) \div 10, Scale}

----------------------------------------------------------------------------
(* Foliage: the vertex shader's position blend *)

clamp(x, lo, hi) == Min(Max(x, lo), hi)

\* float cubicInOut(float t)
cubicInOut(t) ==
    IF 2 * t < Scale
      THEN 4 * Mul(Mul(t, t), t)
      ELSE LET a == 2 * Scale - 2 * t
           IN  Scale - Mul(Mul(a, a), a) \div 2

\* clamp(uProgress * 1.2 - aRandom * 0.2, 0.0, 1.0)
localProgressUnscaled(u, aRandom) ==
    clamp(u - Mul(aRandom, (2 * Scale) \div 10), 0, Scale)
localProgress(u, aRandom) ==
    clamp(Mul(u, (12 * Scale) \div 10) - Mul(aRandom, (2 * Scale) \div 10),
          0, Scale)

easedProgress(i) == cubicInOut(localProgress(uProgress, randoms[i]))

\* mix(x, y, a) = x * (1 - a) + y * a
mix(x, y, a) == Mul(x, Scale - a) + Mul(y, a)

\* the amplitude 0.05 of the breathing offset
BreathAmp == (5 * Scale) \div 100

\* values of sin(...) and cos(...) in the breathing offset
WaveChoices == {-Scale, 0, Scale}

\* newPos of particle i (1-based) once the breathing offset is applied, the
\* offset's sine being sx and its cosine cz
newPos(i, sx, cz) ==
    LET e == easedProgress(i)
        k == (i - 1) * 3
        x == mix(chaosPositions[k + 1], targetPositions[k + 1], e)
        y == mix(chaosPositions[k + 2], targetPositions[k + 2], e)
        z == mix(chaosPositions[k + 3], targetPositions[k + 3], e)
        breathing == 10 * uProgress > 9 * Scale
    IN  << IF breathing THEN x + Mul(sx, BreathAmp) ELSE x,
           y,
           IF breathing THEN z + Mul(cz, BreathAmp) ELSE z >>

----------------------------------------------------------------------------
(* Foliage specifications *)

DrawsFor(n) == [1..n -> DrawChoices]

\* the first render: a count up to maxN, any draws, progressRef = useRef(0)
InitParticles(maxN) ==
    /\ \E n \in 0..maxN : \E draws \in DrawsFor(n) :
        \E made \in {Generate(n, draws)} :
            /\ count = n
            /\ drawn = draws
            /\ chaosPositions = made.chaos
            /\ targetPositions = made.target
            /\ randoms = made.rnd
    /\ prevCount = -1
    /\ progressRef = 0
    /\ uProgress = 0

\* the generator under changing counts
InitGenerator ==
    InitGesture /\ InitHistory /\ InitParticles(MaxCount) /\ InitNoLayout
    /\ InitNoCleanup /\ InitNoScene

Recount == \E n \in 0..MaxCount : \E draws \in DrawsFor(n) : SetCount(n, draws)

SpecGenerator == InitGenerator /\ [][Recount]_vars

\* the progress update and the blend under changing modes
InitBlend ==
    InitGesture /\ InitHistory /\ InitParticles(MaxBlend) /\ InitNoLayout
    /\ InitNoCleanup /\ InitNoScene

RenderFrame == \E delta \in DeltaChoices : FoliageFrame(delta)

NextFoliage == RenderFrame \/ External \/ Rerender

SpecFoliage == InitBlend /\ [][NextFoliage]_vars

\* frames keep arriving, each with a positive delta time
PositiveFrame == \E delta \in DeltaChoices \ {0} : FoliageFrame(delta)

SpecFoliageFair == SpecFoliage /\ WF_vars(PositiveFrame)

----------------------------------------------------------------------------
(* pseudoRandom as called *)

\* a call pseudoRandom(seed) in one of the two files
CallPseudoRandom(copy, seed) ==
    /\ rndCopy' = copy
    /\ rndSeed' = seed
    /\ rndWord' = IF copy = "Polaroids" THEN Polaroids_pseudoRandomWord(seed)
                  ELSE pseudoRandomWord(seed)
    /\ rndValue' = IF copy = "Polaroids" THEN Polaroids_pseudoRandom(seed)
                   ELSE pseudoRandom(seed)
    /\ firstWord' = IF firstWord[seed] = <<>>
                      THEN [firstWord EXCEPT ![seed] = rndWord']
                      ELSE firstWord
    /\ UNCHANGED <<spreadCount, spreadOpts, spreadPositions, spreadCalled>>
    /\ UNCHANGED <<gestureVars, setupVars, foliageVars, historyVars, lifecycleVars,
                   sceneVars>>

NextRandom ==
    \E copy \in {"GestureController", "Polaroids"} : \E seed \in RandomSeeds :
        CallPseudoRandom(copy, seed)

SpecRandom == Init /\ [][NextRandom]_vars

----------------------------------------------------------------------------
(* getUnleashSpreadPositions *)

\* The largest count the function is called with.
MaxSpread == 3

\* Math.PI * 2
TwoPi == (6283 * Scale) \div 1000

\* <<Math.cos(a), Math.sin(a)>> at the angles a (in 1/Scale radians) that
\* counts up to 5 reach with radialJitter 0.28 or 0
CosSin(a) ==
    CASE a = 0 -> <<1000, 0>>
      [] a = 36 -> <<999, 36>>
      [] a = 1256 -> <<310, 951>>
      [] a = 1322 -> <<246, 969>>
      [] a = 1570 -> <<1, 1000>>
      [] a = 1636 -> <<-65, 998>>
      [] a = 2094 -> <<-500, 866>>
      [] a = 2160 -> <<-556, 831>>
      [] a = 2513 -> <<-809, 588>>
      [] a = 2575 -> <<-844, 537>>
      [] a = 3141 -> <<-1000, 1>>
      [] a = 3203 -> <<-998, -61>>
      [] a = 3207 -> <<-998, -65>>
      [] a = 3769 -> <<-810, -587>>
      [] a = 3887 -> <<-735, -678>>
      [] a = 4188 -> <<-501, -866>>
      [] a = 4250 -> <<-446, -895>>
      [] a = 4712 -> <<0, -1000>>
      [] a = 4830 -> <<117, -993>>
      [] a = 5026 -> <<308, -951>>
      [] a = 5079 -> <<358, -934>>

\* opts?.field ?? default: opts is a record that has only the fields given
Nullish(opts, field, default) ==
    IF field \in DOMAIN opts THEN opts[field] ELSE default

\* (radiusBase + radialRand) * easing
SpreadRadiusEasedRand(i, radiusBase, radiusMax, easing) ==
    radiusBase + Mul(Mul(pseudoRandom(i + 77), radiusMax - radiusBase), easing)
SpreadRadius(i, radiusBase, radiusMax, easing) ==
    Mul(radiusBase + Mul(pseudoRandom(i + 77), radiusMax - radiusBase), easing)

\* the object pushed by loop iteration i
SpreadEntry(i, n, opts) ==
    LET radiusBase == Nullish(opts, "radiusBase", 7 * Scale)
        radiusMax == Nullish(opts, "radiusMax", 12 * Scale)
        angleJitter == Nullish(opts, "radialJitter", (28 * Scale) \div 100)
        verticalJitter == Nullish(opts, "verticalJitter", (23 * Scale) \div 10)
        easing == Nullish(opts, "easing", Scale)
        theta == (i * TwoPi) \div n
        thetaJitter == Mul(pseudoRandom(i + 1), angleJitter) - angleJitter \div 2
        angle == theta + thetaJitter
        radius == SpreadRadius(i, radiusBase, radiusMax, easing)
        yOffset == Mul(Mul((pseudoRandom(i + 113) - Scale \div 2) * 2,
                           verticalJitter), easing)
    IN  [x |-> Mul(CosSin(angle)[1], radius),
         y |-> yOffset,
         z |-> Mul(CosSin(angle)[2], radius)]

\* for (let i = 0; i < count; i++) arr.push(...), from iteration i on
RECURSIVE SpreadFrom(_, _, _, _)
SpreadFrom(i, n, opts, arr) ==
    IF i < n
      THEN SpreadFrom(i + 1, n, opts, Append(arr, SpreadEntry(i, n, opts)))
      ELSE arr

getUnleashSpreadPositionsFromOne(n, opts) == SpreadFrom(1, n, opts, <<>>)
getUnleashSpreadPositions(n, opts) == SpreadFrom(0, n, opts, <<>>)

\* the opts arguments: each field is either not given or given with one of
\* a few values (verticalJitter is never given)
NotGiven == [field \in {} |-> 0]
Given(field, values) == {NotGiven} \cup {[f \in {field} |-> v] : v \in values}
SpreadOptions ==
    { base @@ max @@ jitter @@ easing :
        base \in Given("radiusBase", {0, 7 * Scale, 12 * Scale}),
        max \in Given("radiusMax", {7 * Scale, 12 * Scale}),
        jitter \in Given("radialJitter", {0}),
        easing \in Given("easing", {-(Scale \div 2), 0, Scale \div 2}) }

\* the arguments of the call to come
InitSpread ==
    /\ InitGesture
    /\ InitHistory
    /\ InitNoFoliage
    /\ InitNoCleanup
    /\ InitNoScene
    /\ spreadCount \in 0..MaxSpread
    /\ spreadOpts \in SpreadOptions
    /\ spreadPositions = <<>>
    /\ spreadCalled = FALSE
    /\ rndCopy = "none"
    /\ rndSeed = 0
    /\ rndWord = <<0, 0>>
    /\ rndValue = 0
    /\ firstWord = [seed \in RandomSeeds |-> <<>>]

\* the call getUnleashSpreadPositions(spreadCount, spreadOpts)
CallSpread ==
    /\ spreadPositions' = getUnleashSpreadPositions(spreadCount, spreadOpts)
    /\ spreadCalled' = TRUE
    /\ UNCHANGED <<spreadCount, spreadOpts>>
    /\ UNCHANGED <<rndCopy, rndSeed, rndWord, rndValue, firstWord>>
    /\ UNCHANGED <<gestureVars, setupVars, foliageVars, historyVars, lifecycleVars,
                   sceneVars>>

SpecSpread == InitSpread /\ [][CallSpread]_vars

----------------------------------------------------------------------------
(* Petals (part_000) and Polaroids.tsx: the photo cards *)

MaxFrames == 2

\* Math.PI * 2 and the golden angle 2.39996, in fixed point
GoldenAngle == (2400 * Scale) \div 1000

\* <<Math.cos(a), Math.sin(a)>> at the angles the photo layout of up to three
\* photos takes them
PhotoCosSin(a) ==
    CASE a = 0 -> <<1000, 0>>
      [] a = 201 -> <<980, 200>>
      [] a = 2275 -> <<-647, 762>>
      [] a = 2400 -> <<-737, 675>>
      [] a = 3325 -> <<-983, -182>>
      [] a = 4424 -> <<-284, -959>>
      [] a = 4800 -> <<87, -996>>

\* the positions of one pass of the photoData loop: i counts from 0,
\* n = uploadedPhotos.length
PhotoPositions(i, n) ==
    LET ratio == (i * Scale) \div n
        yNorm == (2 * Scale) \div 10 + Mul(ratio, (6 * Scale) \div 10)
        y == yNorm * 9
        r == 5 * (Scale - yNorm) + (8 * Scale) \div 10
        trig == PhotoCosSin(i * GoldenAngle)
        rChaos == 10 * Scale + Mul(Polaroids_pseudoRandom(i + 77), 20 * Scale - 10 * Scale)
        angleJitter ==
            Mul(Polaroids_pseudoRandom(i + 123) - Scale \div 2, (7 * Scale) \div 10)
        yJitter == (Polaroids_pseudoRandom(i + 999) - Scale \div 2) * 6
        trigChaos == PhotoCosSin(Mul(ratio, TwoPi) + angleJitter)
    IN  [chaosPos |-> <<Mul(trigChaos[1], rChaos), 5 * Scale + yJitter,
                        Mul(trigChaos[2], rChaos)>>,
         targetPos |-> <<Mul(r, trig[1]), y, Mul(r, trig[2])>>]

\* the positions for every list length and index that occurs, computed once
PhotoLayout == [n \in 1..3 |-> [i \in 0..(n - 1) |-> PhotoPositions(i, n)]]

\* one pass of the photoData loop; draw is the Math.random() of the speed
PhotoEntry(i, n, url, draw) ==
    [id |-> i,
     url |-> url,
     chaosPos |-> PhotoLayout[n][i].chaosPos,
     targetPos |-> PhotoLayout[n][i].targetPos,
     speed |-> (8 * Scale) \div 10 + Mul(draw, (15 * Scale) \div 10)]

\* the useMemo on [uploadedPhotos]: [] without photos, else one entry per
\* photo in upload order
PhotoDataOf(photos, draws) ==
    [k \in 1..Len(photos) |-> PhotoEntry(k - 1, Len(photos), photos[k], draws[k])]

\* Vector3.lerp(v, alpha): each component moves by (v - this) * alpha
Vector3Lerp(p, v, alpha) ==
    [k \in 1..3 |-> p[k] + Mul(v[k] - p[k], alpha)]

\* PolaroidItem useFrame: step = delta * data.speed * chaosBoost
CardStep(data, delta) ==
    Mul(Mul(delta, data.speed),
        IF currentMode = "CHAOS" THEN (22 * Scale) \div 10 ELSE Scale)
CardTarget(data) ==
    IF currentMode = "FORMED" THEN data.targetPos ELSE data.chaosPos
CardMoved(k, delta) ==
    Vector3Lerp(cardPosition[k], CardTarget(photoData[k]), CardStep(photoData[k], delta))

\* the data prop of card k after its useFrame callback: the callback only
\* reads data.targetPos, data.chaosPos and data.speed
CardDataLerped(k, delta) ==
    [photoData[k] EXCEPT !.targetPos = CardMoved(k, delta)]
CardDataAfterFrame(k, delta) == photoData[k]

\* worldPos.distanceTo(cameraPos), squared, in hundredths
Distance2(p, q) ==
    ((p[1] - q[1]) \div 10) * ((p[1] - q[1]) \div 10)
    + ((p[2] - q[2]) \div 10) * ((p[2] - q[2]) \div 10)
    + ((p[3] - q[3]) \div 10) * ((p[3] - q[3]) \div 10)

\* the forEach over the children from index k on: minDistance starts at
\* Infinity (here -1) and closestIndex at the first card
RECURSIVE ClosestLastFrom(_, _, _, _, _)
ClosestLastFrom(k, positions, camera, minDistance, closestIndex) ==
    IF k > Len(positions) THEN closestIndex
    ELSE LET distance == Distance2(positions[k], camera)
         IN  IF minDistance < 0 \/ distance <= minDistance
               THEN ClosestLastFrom(k + 1, positions, camera, distance, k)
               ELSE ClosestLastFrom(k + 1, positions, camera, minDistance, closestIndex)
RECURSIVE ClosestFrom(_, _, _, _, _)
ClosestFrom(k, positions, camera, minDistance, closestIndex) ==
    IF k > Len(positions) THEN closestIndex
    ELSE LET distance == Distance2(positions[k], camera)
         IN  IF minDistance < 0 \/ distance < minDistance
               THEN ClosestFrom(k + 1, positions, camera, distance, k)
               ELSE ClosestFrom(k + 1, positions, camera, minDistance, closestIndex)

\* child.getWorldPosition(worldPos) of every card when the useFrame callback
\* of Polaroids runs in a frame with the given delta
SeenPositions(delta) ==
    [k \in 1..Len(cardPosition) |->
        IF cardEarly[k] THEN CardMoved(k, delta) ELSE cardPosition[k]]

\* One render frame: every useFrame callback runs once with the same delta.
\* Foliage: the progress update.  Petals: chaos = mode === CHAOS ? 1 : 0.
\* PolaroidItem: the position lerp.  Polaroids: the closest photo; the
\* callbacks of the cards mounted together with Polaroids run before it, the
\* callbacks of cards added later run after it.
RenderScene(delta) ==
    /\ frames < MaxFrames
    /\ FoliageUseFrame(delta)
    /\ petalChaos' = IF currentMode = "CHAOS" THEN 1 ELSE 0
    /\ cardPosition' = [k \in 1..Len(cardPosition) |-> CardMoved(k, delta)]
    /\ closestPhoto' =
          IF twoHandsDetected /\ Len(photoData) > 0
            THEN uploadedPhotos[ClosestFrom(1, SeenPositions(delta), cameraPosition,
                                            -1, 1)]
            ELSE "null"
    /\ photoData' = [k \in 1..Len(photoData) |-> CardDataAfterFrame(k, delta)]
    /\ frames' = frames + 1
    /\ called' = <<>>
    /\ sampled' = "render"
    /\ hadRun' = FALSE
    /\ UNCHANGED <<lastResult, tailKind, tailRun, handKind, handRun,
                   openStreak, streakCalls, altLen, runCalls, runExternal,
                   externalDue, override, listAbsent, noneRun, noneStart>>
    /\ UNCHANGED <<uploadedPhotos, cardEarly, twoHandsDetected, cameraPosition>>
    /\ UNCHANGED <<gestureVars, setupVars, layoutVars, lifecycleVars>>

\* what a prop change of the scene leaves alone
SceneProps ==
    /\ UNCHANGED <<petalChaos, closestPhoto, frames>>
    /\ UNCHANGED <<gestureVars, setupVars, foliageVars, historyVars, layoutVars,
                   lifecycleVars>>

\* a render with a changed uploadedPhotos prop: photoData is regenerated,
\* key={i} keeps the cards that stay, a new card mounts at the origin
SetPhotos(photos, draws) ==
    /\ photos # uploadedPhotos
    /\ uploadedPhotos' = photos
    /\ photoData' = PhotoDataOf(photos, draws)
    /\ cardPosition' = [k \in 1..Len(photos) |->
                          IF k <= Len(cardPosition) THEN cardPosition[k]
                          ELSE <<0, 0, 0>>]
    /\ cardEarly' = [k \in 1..Len(photos) |-> k <= Len(cardEarly) /\ cardEarly[k]]
    /\ UNCHANGED <<twoHandsDetected, cameraPosition>>
    /\ SceneProps

\* a render with a changed twoHandsDetected prop
SetTwoHands(detected) ==
    /\ detected # twoHandsDetected
    /\ twoHandsDetected' = detected
    /\ UNCHANGED <<uploadedPhotos, photoData, cardPosition, cardEarly, cameraPosition>>
    /\ SceneProps

\* the orbit controls move the camera
MoveCamera(position) ==
    /\ position # cameraPosition
    /\ cameraPosition' = position
    /\ UNCHANGED <<uploadedPhotos, photoData, cardPosition, cardEarly, twoHandsDetected>>
    /\ SceneProps

\* Inputs: photo lists in upload order, the Math.random() of a speed, frame
\* delta times in seconds, camera positions
PhotoLists == {<<>>, <<"a.jpg">>, <<"b.jpg", "a.jpg">>}
SpeedDraws == {0, (8 * Scale) \div 10}
SceneDeltas == {Scale \div 10, Scale \div 2}
SceneDraw == CHOOSE draw \in DrawChoices : draw[1] = Almost1
CameraChoices == {<<0, 4 * Scale, 20 * Scale>>, <<-20 * Scale, 4 * Scale, 0>>}

\* the scene mounted with no photo or with one, camera in front of the tree
InitScene ==
    /\ petalChaos = -1
    /\ uploadedPhotos \in {photos \in PhotoLists : Len(photos) <= 1}
    /\ \E draws \in [1..Len(uploadedPhotos) -> SpeedDraws] :
          photoData = PhotoDataOf(uploadedPhotos, draws)
    /\ cardPosition = [k \in 1..Len(uploadedPhotos) |-> <<0, 0, 0>>]
    /\ cardEarly = [k \in 1..Len(uploadedPhotos) |-> TRUE]
    /\ twoHandsDetected = FALSE
    /\ cameraPosition = <<0, 4 * Scale, 20 * Scale>>
    /\ closestPhoto = "none"
    /\ frames = 0

InitAnimation ==
    InitGesture /\ InitHistory /\ InitParticles(0) /\ InitNoLayout /\ InitNoCleanup
    /\ InitScene

SceneFrame == \E delta \in SceneDeltas : RenderScene(delta)
Upload ==
    \E photos \in PhotoLists : \E draws \in [1..Len(photos) -> SpeedDraws] :
        SetPhotos(photos, draws)
Resize == \E n \in 0..1 : \E draws \in [1..n -> {SceneDraw}] : SetCount(n, draws)
Hands == \E detected \in BOOLEAN : SetTwoHands(detected)
Orbit == \E position \in CameraChoices : MoveCamera(position)

\* the animation of the scene under changing modes, photos, hands and camera
NextAnimation == SceneFrame \/ Upload \/ Hands \/ Orbit \/ External \/ Rerender

SpecAnimation == InitAnimation /\ [][NextAnimation]_vars

\* gesture inference and render frames side by side: the prediction loop
\* and the render loop are separate requestAnimationFrame loops
SceneOneFrame == RenderScene(Scale \div 10)

NextScene == Setup \/ PoseFrame \/ External \/ Rerender \/ SceneOneFrame

SpecScene == Init /\ [][NextScene]_vars

\* the generated particle and photo data under frames, changing modes,
\* photos and particle counts
NextData == SceneFrame \/ Upload \/ Resize \/ External \/ Rerender

SpecData == InitAnimation /\ [][NextData]_vars

----------------------------------------------------------------------------
(* Claims about the gesture debouncer, checked under Spec *)

\* the gesture whose held run commits mode m
KindOf(m) == IF m = "CHAOS" THEN "OPEN" ELSE "CLOSED"

C2_OneCallPerTransition ==
    [][ /\ called' # <<>> => (Len(called') = 1 /\ lastModeRef # called'[1])
        /\ ~runExternal' => runCalls' <= 1 ]_vars

C2_Witness ==
    /\ tailKind = "OPEN"
    /\ openFrames > CONFIDENCE_THRESHOLD + 1
    /\ runCalls = 1
    /\ ~runExternal

\* C3: after an external mode change to M has reached the currentMode prop,
\* lastModeRef = M, and the next OPEN or CLOSED frame makes no onModeChange
\* call, whatever the run counters were at the override.
C3_OverrideNotCorrected ==
    [][ /\ override' # "none" => lastModeRef' = override'
        /\ override # "none" => called' = <<>> ]_vars

\* C3, first half only: the override reaches lastModeRef.
C3_OverrideSynced == override # "none" => lastModeRef = override

C5_AlternatingNeverCommits ==
    altLen > 0 =>
        /\ called = <<>>
        /\ openFrames <= 1
        /\ closedFrames <= 1

C5_Witness ==
    altLen = MaxAlt /\ openFrames + closedFrames = 1

----------------------------------------------------------------------------
(* Claims about the classifier, checked under SpecClassifier *)

\* C6: after a frame with a hand, the extended-finger count is an integer in
\* 0..5 and decides the branch taken: 4 or 5 gives OPEN, 0 or 1 gives CLOSED,
\* 2 or 3 gives AMBIGUOUS, exactly one of them; a hand with all five ratio
\* tests true is OPEN and a hand with none true is CLOSED.
C6_ClassifierTotalAndExclusive ==
    (tailRun > 0 /\ lastResult # <<>>) =>
        LET hand == lastResult[1]
            allOut == /\ \A i \in 1..4 : FingerExtended(hand, i)
                      /\ ThumbExtended(hand)
            noneOut == /\ \A i \in 1..4 : ~FingerExtended(hand, i)
                       /\ ~ThumbExtended(hand)
        IN  /\ extendedFingers \in 0..5
            /\ extendedFingers \in {4, 5} =>
                   (tailKind = "OPEN" /\ gestureStatus = "Detected: OPEN (Unleash)")
            /\ extendedFingers \in {0, 1} =>
                   (tailKind = "CLOSED" /\ gestureStatus = "Detected: CLOSED (Restore)")
            /\ extendedFingers \in {2, 3} =>
                   (tailKind = "AMBIGUOUS" /\ gestureStatus = "Detected: ...")
            /\ allOut => (extendedFingers = 5 /\ tailKind = "OPEN")
            /\ noneOut => (extendedFingers = 0 /\ tailKind = "CLOSED")

C6_Witness ==
    /\ tailRun > 0
    /\ lastResult # <<>>
    /\ extendedFingers = 3
    /\ gestureStatus = "Detected: ..."
    /\ \E i \in 1..4 : ~FingerExtended(lastResult[1], i)
                         /\ lastResult[1][fingerTips[i]] # lastResult[1][fingerBases[i]]

----------------------------------------------------------------------------
(* Claims about the foliage progress and blend, checked under SpecFoliage *)

\* the convergence tolerance 0.01
Eps == Scale \div 100

\* C7: progressRef stays in [0, 1] in every reachable state, whatever the
\* modes and the non-negative frame delta times are; the target being 0 or 1,
\* this is also what never passing beyond the target means.
C7_ProgressInUnitInterval == progressRef >= 0 /\ progressRef <= Scale

\* C8: with currentMode held at FORMED and frames arriving with positive
\* delta time, progressRef is eventually within 0.01 of 1.0 for good, and is
\* never above 1.0 or below 0.0.
C8_ConvergesToFormed ==
    [](currentMode = "FORMED") =>
        /\ <>[](Abs(progressRef - Scale) <= Eps)
        /\ [](progressRef >= 0 /\ progressRef <= Scale)

\* C9: for every particle and every value of the breathing offset, at
\* uProgress = 0 the blended position is the particle's chaos position
\* exactly, and at uProgress = 1 under FORMED the blend factor is 1 and the
\* blended position is within the breathing amplitude of its target position.
C9_BlendEndpoints ==
    \A i \in 1..count : \A sx \in WaveChoices : \A cz \in WaveChoices :
        LET p == newPos(i, sx, cz)
            k == (i - 1) * 3
        IN  /\ uProgress = 0 =>
                /\ easedProgress(i) = 0
                /\ p = <<chaosPositions[k + 1], chaosPositions[k + 2],
                         chaosPositions[k + 3]>>
            /\ (uProgress = Scale /\ currentMode = "FORMED") =>
                /\ easedProgress(i) = Scale
                /\ Abs(p[1] - targetPositions[k + 1]) <= BreathAmp
                /\ p[2] = targetPositions[k + 2]
                /\ Abs(p[3] - targetPositions[k + 3]) <= BreathAmp

C9_Witness ==
    /\ uProgress = Scale
    /\ currentMode = "FORMED"
    /\ count = MaxBlend
    /\ randoms[1] = Almost1
    /\ chaosPositions[1] # targetPositions[1]
    /\ newPos(1, Scale, Scale)[1] # targetPositions[1]

----------------------------------------------------------------------------
(* Claims about the generator, checked under SpecGenerator *)

\* C10: for every count N >= 0 the generator's chaos, target and random-factor
\* arrays hold 3N, 3N and N numbers, and entry i of each is the one computed
\* from particle i's draws; for N = 0 all three are empty.
C10_ArraysHoldNParticles ==
    /\ Len(chaosPositions) = 3 * count
    /\ Len(targetPositions) = 3 * count
    /\ Len(randoms) = count
    /\ \A i \in 1..count :
        LET k == (i - 1) * 3
        IN  /\ <<chaosPositions[k + 1], chaosPositions[k + 2],
                 chaosPositions[k + 3]>> = ChaosOf(drawn[i])
            /\ <<targetPositions[k + 1], targetPositions[k + 2],
                 targetPositions[k + 3]>> = TargetOf(i - 1, count, drawn[i])
            /\ randoms[i] = drawn[i][7]
    /\ count = 0 =>
        (chaosPositions = <<>> /\ targetPositions = <<>> /\ randoms = <<>>)

C10_Witness ==
    /\ prevCount = 0
    /\ count = MaxCount
    /\ Len(randoms) = MaxCount
    /\ Len(chaosPositions) = 3 * MaxCount
    /\ drawn[1] # drawn[MaxCount]

\* the squared horizontal radius x^2 + z^2 of the target position of the
\* particle with index i (0-based)
TargetRadius2(i) ==
    targetPositions[i * 3 + 1] * targetPositions[i * 3 + 1]
        + targetPositions[i * 3 + 3] * targetPositions[i * 3 + 3]

\* C11: for every count N >= 1 the target-layout radius of particle 0 is
\* strictly less than the target-layout radius of particle N - 1.
C11_CoreCloserThanRim ==
    count >= 1 => TargetRadius2(0) < TargetRadius2(count - 1)

\* C11 as amended: for every count N >= 2 the target-layout radius of
\* particle 0 is strictly less than that of particle N - 1, whatever the
\* radial jitter draws are (for N = 1 the two are the same particle).
C11_CoreCloserThanRimOfTwo ==
    count >= 2 => TargetRadius2(0) < TargetRadius2(count - 1)

C11_Witness ==
    /\ prevCount >= 0
    /\ count = MaxCount
    /\ drawn[1][6] = Almost1
    /\ drawn[count][6] = 0
    /\ TargetRadius2(0) > 0

----------------------------------------------------------------------------
(* Claims about failed initialisation and single frames, checked under Spec *)

\* C15: once the initialisation has failed (the model or wasm load threw, or
\* webcam access was denied) the status string says so, no predictWebcam call
\* is or was ever scheduled, no sample was taken, no onModeChange call was
\* made, both run counters are still 0, and lastModeRef follows the
\* currentMode prop through external mode changes.
C15_FailedSetupLeavesCoreAlone ==
    setup \in {"unavailable", "denied"} =>
        /\ gestureStatus =
              IF setup = "denied" THEN "Permission Denied"
              ELSE "Gesture control unavailable"
        /\ ~rafPending
        /\ tailRun = 0
        /\ sampled = "none"
        /\ called = <<>>
        /\ runCalls = 0
        /\ openFrames = 0
        /\ closedFrames = 0
        /\ lastModeRef = currentMode
        /\ override # "none" => lastModeRef = override

C15_Witness ==
    /\ setup = "denied"
    /\ handLandmarker
    /\ override # "none"
    /\ lastModeRef = override

\* C16: a frame whose result has no landmarks list, or an empty one, is a
\* NONE sample: both run counters go down by 1, not below 0, lastModeRef and
\* the owner's mode stay, onModeChange is not called, the status is "No hand
\* detected", and the next predictWebcam call is scheduled.
C16_MissingLandmarksDecay ==
    [][ (sampled' # "none" /\ (listAbsent' \/ lastResult' = <<>>)) =>
            /\ sampled' = "NONE"
            /\ openFrames' = Max(0, openFrames - 1)
            /\ closedFrames' = Max(0, closedFrames - 1)
            /\ lastModeRef' = lastModeRef
            /\ mode' = mode
            /\ called' = <<>>
            /\ gestureStatus' = "No hand detected"
            /\ rafPending' ]_vars

C16_Witness ==
    /\ sampled = "NONE"
    /\ listAbsent
    /\ hadRun
    /\ closedFrames = CONFIDENCE_THRESHOLD
    /\ rafPending

C19_NoneFrame ==
    [][ sampled' = "NONE" =>
            /\ openFrames' = Max(0, openFrames - 1)
            /\ closedFrames' = Max(0, closedFrames - 1)
            /\ openFrames' >= 0
            /\ closedFrames' >= 0
            /\ lastModeRef' = lastModeRef
            /\ called' = <<>> ]_vars

C19_Witness ==
    /\ sampled = "NONE"
    /\ openFrames > CONFIDENCE_THRESHOLD
    /\ lastModeRef = "FORMED"
    /\ called = <<>>

\* C20: an AMBIGUOUS frame (2 or 3 extended fingers) sets both run counters
\* to 0, leaves lastModeRef alone and does not call onModeChange.
C20_AmbiguousFrame ==
    [][ sampled' = "AMBIGUOUS" =>
            /\ extendedFingers' \in {2, 3}
            /\ openFrames' = 0
            /\ closedFrames' = 0
            /\ lastModeRef' = lastModeRef
            /\ called' = <<>> ]_vars

C20_Witness ==
    /\ sampled = "AMBIGUOUS"
    /\ hadRun
    /\ extendedFingers = 3
    /\ openFrames = 0
    /\ closedFrames = 0

----------------------------------------------------------------------------
(* Claims about pseudoRandom, checked under SpecRandom *)

----------------------------------------------------------------------------
(* Claims about getUnleashSpreadPositions, checked under SpecSpread *)

\* the rounding error allowed on a radius computed from rounded x and z
RadiusTol == Scale \div 100

\* the squared horizontal radius of p lies in [lo, hi], up to RadiusTol
RadiusWithin(p, lo, hi) ==
    LET r2 == p.x * p.x + p.z * p.z
    IN  /\ lo > RadiusTol => r2 >= (lo - RadiusTol) * (lo - RadiusTol)
        /\ hi + RadiusTol >= 0
        /\ r2 <= (hi + RadiusTol) * (hi + RadiusTol)

\* the options of the last call, with the defaults filled in
LastRadiusBase == Nullish(spreadOpts, "radiusBase", 7 * Scale)
LastRadiusMax == Nullish(spreadOpts, "radiusMax", 12 * Scale)
LastEasing == Nullish(spreadOpts, "easing", Scale)

\* C12: for every count >= 1 and every opts, each returned position has its
\* horizontal radius sqrt(x^2 + z^2) in [radiusBase * easing,
\* radiusMax * easing].
C12_RadiusInRange ==
    (spreadCalled /\ spreadCount >= 1) =>
        \A k \in 1..Len(spreadPositions) :
            RadiusWithin(spreadPositions[k], Mul(LastRadiusBase, LastEasing),
                         Mul(LastRadiusMax, LastEasing))

\* C12 as amended: the same, for opts with 0 <= radiusBase <= radiusMax and
\* easing >= 0.
C12_RadiusInRangeOfOrderedOptions ==
    (/\ spreadCalled
     /\ spreadCount >= 1
     /\ 0 <= LastRadiusBase
     /\ LastRadiusBase <= LastRadiusMax
     /\ LastEasing >= 0) =>
        \A k \in 1..Len(spreadPositions) :
            RadiusWithin(spreadPositions[k], Mul(LastRadiusBase, LastEasing),
                         Mul(LastRadiusMax, LastEasing))

C12_Witness ==
    /\ spreadCalled
    /\ spreadCount = MaxSpread
    /\ LastRadiusBase = 7 * Scale
    /\ LastRadiusMax = 12 * Scale
    /\ LastEasing = Scale \div 2
    /\ "radialJitter" \notin DOMAIN spreadOpts
    /\ Len(spreadPositions) = MaxSpread
    /\ spreadPositions[1].x # spreadPositions[2].x
    /\ spreadPositions[2].z # 0

\* C13: a call with count >= 0 returns exactly count entries; a call with
\* count = 0 returns the empty array, its loop body (the only place that
\* divides by count) never being evaluated.
C13_ReturnsCountEntries ==
    spreadCalled =>
        /\ Len(spreadPositions) = spreadCount
        /\ spreadCount = 0 => spreadPositions = <<>>

C13_Witness ==
    /\ spreadCalled
    /\ spreadCount = 0
    /\ spreadPositions = <<>>
    /\ DOMAIN spreadOpts = {"radiusBase", "radiusMax", "radialJitter", "easing"}

----------------------------------------------------------------------------
(* Further claims about the debouncer, checked under Spec *)

\* C22: during an uninterrupted run of k NONE frames that began with the
\* larger run counter at m, the larger counter is max(0, m - k): both
\* counters are 0 once k >= m and stay 0 for the rest of the run, and one
\* NONE frame leaves a counter that was above 1 above 0.
C22_NoneRunDecaysToZero ==
    noneRun > 0 =>
        /\ Max(openFrames, closedFrames) = Max(0, noneStart - noneRun)
        /\ Min(openFrames, closedFrames) = 0
        /\ noneRun >= noneStart => (openFrames = 0 /\ closedFrames = 0)
        /\ (noneRun = 1 /\ noneStart > 1) => openFrames + closedFrames > 0

C22_Witness ==
    /\ noneRun = MaxRun + 1
    /\ noneStart = MaxRun
    /\ openFrames = 0
    /\ closedFrames = 0

\* C26: in every reachable state at least one of openFrames and closedFrames
\* is 0.
C26_OneCounterIsZero == openFrames = 0 \/ closedFrames = 0

C26_Witness ==
    /\ sampled = "CLOSED"
    /\ hadRun
    /\ tailRun = 1
    /\ closedFrames = 1
    /\ openFrames = 0
    /\ handRun = 1
    /\ noneStart = 0

\* C28: whenever the currentMode prop is the owner's mode (no render is
\* outstanding), lastModeRef = currentMode.
C28_LastModeFollowsCurrentMode == mode = currentMode => lastModeRef = currentMode

----------------------------------------------------------------------------
(* The foliage progress update, checked under SpecFoliage *)

\* C21: every per-frame update of the foliage progress leaves the distance
\* to the target no larger than it was and does not carry the progress past
\* the target.
C21_ProgressApproachesTarget ==
    [][progressRef' # progressRef =>
        LET target == IF currentMode = "FORMED" THEN Scale ELSE 0
        IN  /\ Abs(target - progressRef') <= Abs(target - progressRef)
            /\ (progressRef' - target) * (progressRef - target) >= 0]_vars

----------------------------------------------------------------------------
(* The prediction loops, checked under SpecLifecycle *)

\* C27: an effect instance whose cleanup has run takes no further gesture
\* sample and never calls onModeChange, and its loop is never scheduled
\* alongside the loop of the current instance.
C27_CleanedUpLoopIsDead ==
    /\ ~oldFed
    /\ ~oldCalled
    /\ ~(rafPending /\ oldRafPending)

----------------------------------------------------------------------------
(* Render frames beside gesture inference, checked under SpecScene *)

\* C23: a render frame takes no gesture sample and leaves the Mode,
\* lastModeRef, openFrames and closedFrames as they are; a step that takes
\* no sample leaves the counters alone; a prediction frame applies its one
\* sample to the counters exactly once, however many render frames ran
\* since the sample before.
C23_RenderAndInferenceDecoupled ==
    [][ /\ frames' # frames =>
              /\ sampled' = "render"
              /\ mode' = mode
              /\ lastModeRef' = lastModeRef
              /\ openFrames' = openFrames
              /\ closedFrames' = closedFrames
        /\ sampled' \in {"none", "render"} =>
              /\ openFrames' = openFrames
              /\ closedFrames' = closedFrames
        /\ sampled' = "OPEN" => (openFrames' = openFrames + 1 /\ closedFrames' = 0)
        /\ sampled' = "CLOSED" => (closedFrames' = closedFrames + 1 /\ openFrames' = 0)
        /\ sampled' = "NONE" =>
              /\ openFrames' = Max(0, openFrames - 1)
              /\ closedFrames' = Max(0, closedFrames - 1) ]_vars

\* a render frame has just run in the middle of an OPEN run that has not
\* committed yet
C23_Witness ==
    /\ sampled = "render"
    /\ frames = MaxFrames
    /\ tailKind = "OPEN"
    /\ openFrames = CONFIDENCE_THRESHOLD
    /\ lastModeRef = "FORMED"
    /\ mode = "FORMED"
    /\ progressRef > 0

----------------------------------------------------------------------------
(* The generated data, checked under SpecData *)

\* the positions held by a photoData array
DataPositions(data) == [k \in 1..Len(data) |-> <<data[k].chaosPos, data[k].targetPos>>]

\* C24: the foliage arrays chaosPositions, targetPositions and randoms change
\* only in a step that changes the particle count, and the chaosPos and
\* targetPos of the photo cards only in a step that changes the photo list;
\* no render frame and no Mode change modifies them.
C24_DataWrittenOnce ==
    [][ /\ <<chaosPositions, targetPositions, randoms>>'
                # <<chaosPositions, targetPositions, randoms>> => count' # count
        /\ DataPositions(photoData') # DataPositions(photoData) =>
                uploadedPhotos' # uploadedPhotos
        /\ (frames' # frames \/ mode' # mode \/ currentMode' # currentMode) =>
              /\ <<chaosPositions, targetPositions, randoms>>'
                    = <<chaosPositions, targetPositions, randoms>>
              /\ DataPositions(photoData') = DataPositions(photoData) ]_vars

\* after a Mode change to CHAOS and render frames that moved both cards, the
\* data is still what the generators made
C24_Witness ==
    /\ frames = MaxFrames
    /\ sampled = "render"
    /\ currentMode = "CHAOS"
    /\ override = "CHAOS"
    /\ count = 1
    /\ chaosPositions = Generate(count, drawn).chaos
    /\ targetPositions = Generate(count, drawn).target
    /\ Len(photoData) = 2
    /\ \A k \in 1..2 :
          /\ photoData[k].chaosPos = PhotoLayout[2][k - 1].chaosPos
          /\ photoData[k].targetPos = PhotoLayout[2][k - 1].targetPos
          /\ cardPosition[k] # <<0, 0, 0>>

----------------------------------------------------------------------------
(* The animation of petals and photo cards, checked under SpecAnimation *)

\* C25: in no subsystem does the mode-dependent blend factor go from its
\* CHAOS value to its FORMED value, or back, within one frame: neither the
\* foliage's uProgress (0 and 1) nor the petals' chaos factor (1 and 0).
C25_NoSwitchWithinOneFrame ==
    [][ /\ ~(petalChaos = 0 /\ petalChaos' = 1)
        /\ ~(petalChaos = 1 /\ petalChaos' = 0)
        /\ ~(uProgress = 0 /\ uProgress' = Scale)
        /\ ~(uProgress = Scale /\ uProgress' = 0) ]_vars

\* x lies between a and b
Between(a, x, b) == (a <= x /\ x <= b) \/ (b <= x /\ x <= a)

\* C29: in every render frame every photo card moves to a point between its
\* position and the mode-selected position (the lerp factor is within
\* [0,1]), and its distance to that position does not grow.
C29_CardApproachesTarget ==
    [][ frames' # frames =>
          \A k \in 1..Len(cardPosition) :
              /\ \A c \in 1..3 :
                    Between(cardPosition[k][c], cardPosition'[k][c],
                            CardTarget(photoData[k])[c])
              /\ Distance2(cardPosition'[k], CardTarget(photoData[k]))
                    <= Distance2(cardPosition[k], CardTarget(photoData[k])) ]_vars

\* the position of card k that the closest-photo computation of the step
\* reads: after the card's own move for a card mounted with Polaroids
SeenByStep(k) == IF cardEarly[k] THEN cardPosition'[k] ELSE cardPosition[k]

\* C30: the photo-card set has one card per uploaded photo, in upload order;
\* a render frame passes the callback null unless two hands are detected
\* and a photo exists, and then the uploaded photo at the lowest index among
\* those at minimal distance from the camera.
C30_ClosestPhotoAndCardSet ==
    /\ [](/\ Len(photoData) = Len(uploadedPhotos)
          /\ Len(cardPosition) = Len(uploadedPhotos)
          /\ \A k \in 1..Len(uploadedPhotos) :
                photoData[k].url = uploadedPhotos[k] /\ photoData[k].id = k - 1)
    /\ [][ frames' # frames =>
             IF twoHandsDetected /\ Len(uploadedPhotos) > 0
               THEN \E i \in 1..Len(uploadedPhotos) :
                      /\ closestPhoto' = uploadedPhotos[i]
                      /\ \A j \in 1..Len(uploadedPhotos) :
                            /\ Distance2(SeenByStep(i), cameraPosition)
                                  <= Distance2(SeenByStep(j), cameraPosition)
                            /\ j < i => Distance2(SeenByStep(i), cameraPosition)
                                          < Distance2(SeenByStep(j), cameraPosition)
               ELSE closestPhoto' = "null" ]_vars

\* with two hands detected the second of two uploaded photos is reported,
\* its card being nearer to the camera than the first
C30_Witness ==
    /\ twoHandsDetected
    /\ sampled = "render"
    /\ uploadedPhotos = <<"b.jpg", "a.jpg">>
    /\ closestPhoto = "a.jpg"
    /\ Distance2(cardPosition[2], cameraPosition)
          < Distance2(cardPosition[1], cameraPosition)

============================================================================
